---- MODULE Spec2Model ----
(***************************************************************************)
(* Quarterly data generators of the audit dashboard:                       *)
(*   scripts/generate_quarterly_data.py        (business-unit generator)   *)
(*   scripts/generate_enterprise_quarterly.py  (enterprise generator)      *)
(*                                                                         *)
(* Numbers.  A JSON number is held in fixed point, in thousandths:         *)
(* Num(75000) is 75, Num(44750) is 44.75.  The multiplier                  *)
(* 1 + trend_factor + random_factor of vary_value is held in thousandths   *)
(* too (0.015 is 15), so the product of a whole number and the multiplier  *)
(* is exact.  Floating-point rounding error is not modelled.               *)
(*                                                                         *)
(* Random source.  The process-wide generator seeded by random.seed is a   *)
(* sequence of draws u/RandDen, u in 0..RandDen, read at a position that   *)
(* every call advances.  The sequence is periodic with period StreamLen.   *)
(* The draw u = RandDen stands for the draws so close to 1 that            *)
(* a + (b-a)*random() rounds to b.                                         *)
(***************************************************************************)
EXTENDS Integers, Sequences, FiniteSets, TLC

VARIABLES
    stream,         \* the seeded random source: the sequence of draws
    pos,            \* position of the next draw in stream (0-based, mod StreamLen)
    call,           \* SpecFn: the arguments and result of a call of a leaf function
    heap,           \* the documents in memory: reference -> document
    baseline_file,  \* the JSON document held by the baseline file on disk
    baseline_data,  \* reference to the loaded baseline document
    self,           \* the QuarterlyDataGenerator under construction / generating
    result,         \* what the last generate call returned (or that it raised)
    program,        \* SpecMain: the script that runs, "bu" or "ent"
    dir_exists,     \* SpecMain: DATA_DIR exists
    files,          \* SpecMain: the JSON files of DATA_DIR, file name -> document
    pc,             \* SpecMain: where main() is
    baseline_files, \* SpecMain: the list load_baseline_data returned
    qi,             \* SpecMain: index of the quarter of the next iteration
    fi,             \* SpecMain: index of the baseline file of the next iteration
    console,        \* SpecMain: what the run reported, in order
    run,            \* SpecMain: 1 in the first run of the script, 2 in the second
    first_files     \* SpecMain: DATA_DIR as the first run left it

----------------------------------------------------------------------------
(* Bounds of the model *)

RandDen == 2        \* draws are the grid points 0/RandDen .. RandDen/RandDen
StreamLen == 2      \* period of the sequence of draws

----------------------------------------------------------------------------
(* JSON values, as Python holds them after json.load *)

None == [t |-> "none"]
Num(n) == [t |-> "num", v |-> n]
Str(s) == [t |-> "str", s |-> s]
Dict(f) == [t |-> "dict", d |-> f]
List(l) == [t |-> "list", l |-> l]
EmptyDict == Dict(<<>>)

\* the outcome of an expression that raises (TypeError, AttributeError)
Raised == [t |-> "raise"]

Whole(n) == Num(n * 1000)

Min2(a, b) == IF a <= b THEN a ELSE b
Max2(a, b) == IF a >= b THEN a ELSE b

\* value * multiplier, value and result in thousandths, multiplier in thousandths
MulMilli(v, f) == (v \div 1000) * f + ((v % 1000) * f) \div 1000

\* Python 3 round(x): to the nearest whole number, a tie to the even one
PyRound(v) ==
    LET q == v \div 1000
        r == v % 1000
    IN  IF r < 500 THEN q * 1000
        ELSE IF r > 500 THEN (q + 1) * 1000
        ELSE IF q % 2 = 0 THEN q * 1000 ELSE (q + 1) * 1000

----------------------------------------------------------------------------
(* Configuration *)

TrendPerQuarter == 15       \* 0.015: 1.5% per quarter
CountMax == 999999          \* max_val of vary_count

QUARTER_TRENDS ==
    [q \in {"q4-2023", "q1-2024", "q2-2024", "q3-2024", "q4-2024"} |->
        CASE q = "q4-2023" -> -3
          [] q = "q1-2024" -> -2
          [] q = "q2-2024" -> -1
          [] q = "q3-2024" -> 0
          [] q = "q4-2024" -> 1]

TARGET_QUARTERS == <<"q4-2023", "q1-2024", "q2-2024", "q4-2024">>

----------------------------------------------------------------------------
(* The random source *)

\* the draw at position p
DrawAt(p) == stream[(p % StreamLen) + 1]
NextPos(p) == (p + 1) % StreamLen

\* random.uniform(a, b) = a + (b - a) * random(), for the draw u / RandDen
uniform(a, b, u) == a + ((b - a) * u) \div RandDen

----------------------------------------------------------------------------
(* Leaf functions of the enterprise generator *)

\* variant of vary_value: the clamp is left out
vary_value_unclamped(value, trend_offset, improvement_trend, volatility, min_val, max_val, u) ==
    IF value = None THEN None
    ELSE IF value.t # "num" THEN Raised
    ELSE
        LET trend_direction == IF improvement_trend THEN 1 ELSE -1
            trend_factor == trend_offset * TrendPerQuarter * trend_direction
            random_factor == uniform(-volatility, volatility, u)
        IN  Num(MulMilli(value.v, 1000 + trend_factor + random_factor))

\* variant of vary_value: the trend direction is reversed
vary_value_trend_reversed(value, trend_offset, improvement_trend, volatility, min_val, max_val, u) ==
    IF value = None THEN None
    ELSE IF value.t # "num" THEN Raised
    ELSE
        LET trend_direction == IF improvement_trend THEN -1 ELSE 1
            trend_factor == trend_offset * TrendPerQuarter * trend_direction
            random_factor == uniform(-volatility, volatility, u)
            varied == MulMilli(value.v, 1000 + trend_factor + random_factor)
        IN  Num(Max2(min_val, Min2(max_val, varied)))

vary_value(value, trend_offset, improvement_trend, volatility, min_val, max_val, u) ==
    IF value = None THEN None
    ELSE IF value.t # "num" THEN Raised
    ELSE
        LET trend_direction == IF improvement_trend THEN 1 ELSE -1
            trend_factor == trend_offset * TrendPerQuarter * trend_direction
            random_factor == uniform(-volatility, volatility, u)
            varied == MulMilli(value.v, 1000 + trend_factor + random_factor)
        IN  Num(Max2(min_val, Min2(max_val, varied)))

\* variant of vary_count: the rounding is left out
vary_count_unrounded(count, trend_offset, improvement_trend, volatility, u) ==
    IF count = None \/ count = Num(0) THEN count
    ELSE vary_value(count, trend_offset, improvement_trend, volatility,
                    0, CountMax * 1000, u)

vary_count(count, trend_offset, improvement_trend, volatility, u) ==
    IF count = None \/ count = Num(0) THEN count
    ELSE
        LET varied == vary_value(count, trend_offset, improvement_trend, volatility,
                                 0, CountMax * 1000, u)
        IN  IF varied = Raised THEN Raised ELSE Num(PyRound(varied.v))

----------------------------------------------------------------------------
(* Leaf methods of QuarterlyDataGenerator (business-unit generator);       *)
(* trend_offset is self.trend_offset                                       *)

BU_vary_value(value, trend_offset, improvement_trend, volatility, min_val, max_val, u) ==
    IF value = None THEN None
    ELSE IF value.t # "num" THEN Raised
    ELSE
        LET trend_direction == IF improvement_trend THEN 1 ELSE -1
            trend_factor == trend_offset * TrendPerQuarter * trend_direction
            random_factor == uniform(-volatility, volatility, u)
            varied == MulMilli(value.v, 1000 + trend_factor + random_factor)
        IN  Num(Max2(min_val, Min2(max_val, varied)))

BU_vary_count(count, trend_offset, improvement_trend, volatility, u) ==
    IF count = None \/ count = Num(0) THEN count
    ELSE
        LET varied == BU_vary_value(count, trend_offset, improvement_trend, volatility,
                                    0, CountMax * 1000, u)
        IN  IF varied = Raised THEN Raised ELSE Num(PyRound(varied.v))

\* does the call reach random.uniform?
DrawsValue(value) == value # None
DrawsCount(count) == count # None /\ count # Num(0)

----------------------------------------------------------------------------
(* Nested documents *)

Absent == [t |-> "absent"]

\* Follow `path` from `node` the way the walkers do, with `k in d`, d[k] and
\* d.get(k, {}): a missing key ends the walk silently (Absent); a key test or
\* .get on a value that is no mapping (null, a number) raises.
RECURSIVE Lookup(_, _)
Lookup(node, path) ==
    IF path = <<>> THEN node
    ELSE IF node.t # "dict" THEN Raised
    ELSE IF Head(path) \notin DOMAIN node.d THEN Absent
    ELSE Lookup(node.d[Head(path)], Tail(path))

\* d[k1][k2]...[kn] = val
RECURSIVE SetPath(_, _, _)
SetPath(node, path, val) ==
    IF path = <<>> THEN val
    ELSE Dict([k \in DOMAIN node.d \cup {Head(path)} |->
                IF k = Head(path)
                THEN SetPath(IF k \in DOMAIN node.d THEN node.d[k] ELSE EmptyDict,
                             Tail(path), val)
                ELSE node.d[k]])

\* sum(d.values()): raises when a value is not a number
RECURSIVE SumKeys(_, _)
SumKeys(f, keys) ==
    IF keys = {} THEN 0
    ELSE LET k == CHOOSE x \in keys : TRUE
         IN  f[k].v + SumKeys(f, keys \ {k})

AllNumbers(f) == \A k \in DOMAIN f : f[k].t = "num"

\* quarter.upper()
Upper(q) ==
    CASE q = "q4-2023" -> "Q4-2023"
      [] q = "q1-2024" -> "Q1-2024"
      [] q = "q2-2024" -> "Q2-2024"
      [] q = "q3-2024" -> "Q3-2024"
      [] q = "q4-2024" -> "Q4-2024"

quarter_dates ==
    [q \in DOMAIN QUARTER_TRENDS |->
        CASE q = "q4-2023" -> "2023-12-31"
          [] q = "q1-2024" -> "2024-03-31"
          [] q = "q2-2024" -> "2024-06-30"
          [] q = "q3-2024" -> "2024-09-30"
          [] q = "q4-2024" -> "2024-12-31"]

----------------------------------------------------------------------------
(* QuarterlyDataGenerator.  A generator object is                          *)
(*   [data, quarter, trend_offset]  the fields set by the constructor,     *)
(*   pos     the position of the random source as the method runs,         *)
(*   raised  an exception is propagating out of the method.                *)
(* data is the document self.data refers to.                               *)

Raise(g) == [g EXCEPT !.raised = TRUE]

\* if <path present>: d[leaf] = self.vary_value(d[leaf], ...)
BU_value_at(g, path, improvement_trend, volatility, min_val, max_val) ==
    IF g.raised THEN g
    ELSE
        LET old == Lookup(g.data, path)
            new == BU_vary_value(old, g.trend_offset, improvement_trend, volatility,
                                 min_val, max_val, DrawAt(g.pos))
        IN  IF old = Raised THEN Raise(g)
            ELSE IF old = Absent THEN g
            ELSE IF new = Raised THEN Raise(g)
            ELSE [g EXCEPT !.data = SetPath(g.data, path, new),
                           !.pos = IF DrawsValue(old) THEN NextPos(g.pos) ELSE g.pos]

\* variant of BU_count_at: d[leaf] = self.vary_count(d.get(leaf), ...) without
\* the test for the key
BU_count_at_unguarded(g, path, improvement_trend, volatility) ==
    IF g.raised THEN g
    ELSE
        LET old == Lookup(g.data, path)
            new == BU_vary_count(IF old = Absent THEN None ELSE old, g.trend_offset,
                                 improvement_trend, volatility, DrawAt(g.pos))
        IN  IF old = Raised THEN Raise(g)
            ELSE IF new = Raised THEN Raise(g)
            ELSE [g EXCEPT !.data = SetPath(g.data, path, new),
                           !.pos = IF old # Absent /\ DrawsCount(old)
                                   THEN NextPos(g.pos) ELSE g.pos]

\* if <path present>: d[leaf] = self.vary_count(d[leaf], ...)
BU_count_at(g, path, improvement_trend, volatility) ==
    IF g.raised THEN g
    ELSE
        LET old == Lookup(g.data, path)
            new == BU_vary_count(old, g.trend_offset, improvement_trend, volatility,
                                 DrawAt(g.pos))
        IN  IF old = Raised THEN Raise(g)
            ELSE IF old = Absent THEN g
            ELSE IF new = Raised THEN Raise(g)
            ELSE [g EXCEPT !.data = SetPath(g.data, path, new),
                           !.pos = IF DrawsCount(old) THEN NextPos(g.pos) ELSE g.pos]

\* variant of update_metadata: the label is stored under "name" as well
update_metadata_names_period(g) ==
    LET d1 == SetPath(g.data, <<"quarter">>, Str(Upper(g.quarter)))
        d2 == SetPath(d1, <<"date">>, Str(quarter_dates[g.quarter]))
        d3 == IF "name" \in DOMAIN d2.d
              THEN SetPath(d2, <<"name">>, Str(Upper(g.quarter))) ELSE d2
    IN  [g EXCEPT !.data = d3]

update_metadata(g) ==
    LET d1 == SetPath(g.data, <<"quarter">>, Str(Upper(g.quarter)))
        d2 == SetPath(d1, <<"date">>, Str(quarter_dates[g.quarter]))
    IN  [g EXCEPT !.data = d2]

vary_executive_scorecard(g) ==
    LET sc == <<"executiveScorecard">>
        g1 == BU_value_at(g, sc \o <<"overallScore", "value">>, TRUE, 20, 60000, 95000)
        g2 == BU_value_at(g1, sc \o <<"riskMetrics", "amlCompliance">>, TRUE, 25, 0, 100000)
        g3 == BU_value_at(g2, sc \o <<"riskMetrics", "fraudRisk">>, TRUE, 25, 0, 100000)
        g4 == BU_value_at(g3, sc \o <<"riskMetrics", "operationalRisk">>, TRUE, 25, 0, 100000)
        g5 == BU_value_at(g4, sc \o <<"riskMetrics", "cyberSecurity">>, TRUE, 25, 0, 100000)
        g6 == BU_count_at(g5, sc \o <<"alerts", "critical">>, FALSE, 150)
        g7 == BU_count_at(g6, sc \o <<"alerts", "high">>, FALSE, 150)
        g8 == BU_count_at(g7, sc \o <<"alerts", "medium">>, FALSE, 150)
    IN  BU_count_at(g8, sc \o <<"alerts", "low">>, FALSE, 150)

vary_compliance_metrics(g) ==
    LET cm == <<"complianceMetrics">>
        g1 == BU_value_at(g, cm \o <<"training", "completion", "overall">>,
                          TRUE, 20, 80000, 99000)
        g2 == BU_value_at(g1, cm \o <<"regulatory", "sarFiling", "timeliness">>,
                          TRUE, 20, 0, 100000)
        g3 == BU_value_at(g2, cm \o <<"regulatory", "sarFiling", "quality">>,
                          TRUE, 20, 0, 100000)
        g4 == BU_count_at(g3, cm \o <<"regulatory", "sarFiling", "volume">>, FALSE, 100)
    IN  BU_value_at(g4, cm \o <<"policy", "distribution", "acknowledgment">>,
                    TRUE, 25, 0, 100000)

\* fraudMetrics.losses.rate is a fraction bounded by 0.0001 and 0.01, finer than
\* a thousandth: that one leaf is held in units of 1e-7, so that its bounds are
\* 1000 and 100000 (vary_value is linear in value, min_val and max_val).
vary_risk_metrics(g) ==
    LET rm == <<"riskMetrics">>
        g1 == BU_count_at(g, rm \o <<"amlMonitoring", "alertVolume", "total">>, FALSE, 120)
        g2 == BU_value_at(g1, rm \o <<"amlMonitoring", "effectiveness", "modelAccuracy">>,
                          TRUE, 30, 0, 100000)
        g3 == BU_value_at(g2, rm \o <<"amlMonitoring", "effectiveness", "falsePositiveRate">>,
                          FALSE, 30, 0, 100000)
        g4 == BU_value_at(g3, rm \o <<"amlMonitoring", "effectiveness", "reviewEfficiency">>,
                          TRUE, 30, 0, 100000)
        g5 == BU_value_at(g4, rm \o <<"fraudMetrics", "losses", "rate">>,
                          FALSE, 80, 1000, 100000)
    IN  BU_value_at(g5, rm \o <<"sanctionsScreening", "coverage", "transactions">>,
                    TRUE, 10, 95000, 100000)

vary_operational_metrics(g) ==
    LET om == <<"operationalMetrics">>
        g1 == BU_value_at(g, om \o <<"kycCdd", "completion", "new">>, TRUE, 25, 0, 100000)
        g2 == BU_value_at(g1, om \o <<"kycCdd", "periodicReview", "onTime">>,
                          TRUE, 30, 0, 100000)
        g3 == BU_value_at(g2, om \o <<"amlMonitoring", "effectiveness", "modelAccuracy">>,
                          TRUE, 25, 0, 100000)
        g4 == BU_value_at(g3, om \o <<"amlMonitoring", "effectiveness", "falsePositiveRate">>,
                          FALSE, 25, 0, 100000)
    IN  BU_value_at(g4, om \o <<"amlMonitoring", "effectiveness", "reviewEfficiency">>,
                    TRUE, 25, 0, 100000)

CloseChance == 3            \* random.random() < 0.3, in tenths
ReopenChance == 2           \* random.random() < 0.2, in tenths

\* random.random() < tenths / 10, for the draw u / RandDen
Below(u, tenths) == u * 10 < tenths * RandDen

\* variant of flip_status: a future period closes every finding whose status
\* is not Closed
flip_status_not_closed(g, path, i) ==
    LET finding == Lookup(g.data, path).l[i]
        status == Lookup(finding, <<"status">>)
        u == DrawAt(g.pos)
        at == [j \in 1..Len(Lookup(g.data, path).l) |->
                 IF j = i THEN SetPath(finding, <<"status">>,
                                       Str(IF g.trend_offset > 0 THEN "Closed" ELSE "Open"))
                 ELSE Lookup(g.data, path).l[j]]
    IN  IF g.trend_offset = 0 THEN g
        ELSE IF status = Raised THEN Raise(g)
        ELSE IF g.trend_offset > 0 /\ status # Str("Closed") /\ status # Absent
        THEN [g EXCEPT !.pos = NextPos(g.pos),
                       !.data = IF Below(u, CloseChance)
                                THEN SetPath(g.data, path, List(at)) ELSE g.data]
        ELSE IF g.trend_offset < 0 /\ status = Str("Closed")
        THEN [g EXCEPT !.pos = NextPos(g.pos),
                       !.data = IF Below(u, ReopenChance)
                                THEN SetPath(g.data, path, List(at)) ELSE g.data]
        ELSE g

\* one pass of the loop body over finding number i of the list at `path`
flip_status(g, path, i) ==
    LET finding == Lookup(g.data, path).l[i]
        status == Lookup(finding, <<"status">>)
        u == DrawAt(g.pos)
        at == [j \in 1..Len(Lookup(g.data, path).l) |->
                 IF j = i THEN SetPath(finding, <<"status">>,
                                       Str(IF g.trend_offset > 0 THEN "Closed" ELSE "Open"))
                 ELSE Lookup(g.data, path).l[j]]
    IN  IF g.trend_offset = 0 THEN g
        ELSE IF status = Raised THEN Raise(g)
        ELSE IF g.trend_offset > 0 /\ status = Str("Open")
        THEN [g EXCEPT !.pos = NextPos(g.pos),
                       !.data = IF Below(u, CloseChance)
                                THEN SetPath(g.data, path, List(at)) ELSE g.data]
        ELSE IF g.trend_offset < 0 /\ status = Str("Closed")
        THEN [g EXCEPT !.pos = NextPos(g.pos),
                       !.data = IF Below(u, ReopenChance)
                                THEN SetPath(g.data, path, List(at)) ELSE g.data]
        ELSE g

\* for finding in findings_list, from finding number i on
RECURSIVE flip_findings(_, _, _)
flip_findings(g, path, i) ==
    IF g.raised \/ i > Len(Lookup(g.data, path).l) THEN g
    ELSE flip_findings(flip_status(g, path, i), path, i + 1)

\* variant of recalculate_total: the perturbed total is kept
recalculate_total_skipped(g) == g

\* if by_severity: summary["total"] = sum(by_severity.values())
recalculate_total(g) ==
    LET summary == <<"auditFindings", "summary">>
        by_severity == Lookup(g.data, summary \o <<"bySeverity">>)
    IN  IF g.raised THEN g
        ELSE IF by_severity.t # "dict" \/ DOMAIN by_severity.d = {} THEN g
        ELSE IF ~AllNumbers(by_severity.d) THEN Raise(g)
        ELSE [g EXCEPT !.data = SetPath(g.data, summary \o <<"total">>,
                                 Num(SumKeys(by_severity.d, DOMAIN by_severity.d)))]

findings_loop(g) ==
    LET path == <<"auditFindings", "findings">>
        findings_list == Lookup(g.data, path)
    IN  IF g.raised \/ findings_list = Absent THEN g
        ELSE IF findings_list.t # "list" THEN Raise(g)
        ELSE flip_findings(g, path, 1)

vary_audit_findings(g) ==
    LET summary == <<"auditFindings", "summary">>
        g1 == BU_count_at(g, summary \o <<"total">>, FALSE, 150)
        g2 == BU_count_at(g1, summary \o <<"bySeverity", "critical">>, FALSE, 200)
        g3 == BU_count_at(g2, summary \o <<"bySeverity", "high">>, FALSE, 200)
        g4 == BU_count_at(g3, summary \o <<"bySeverity", "medium">>, FALSE, 150)
        g5 == BU_count_at(g4, summary \o <<"bySeverity", "low">>, FALSE, 150)
        g6 == recalculate_total(g5)
        g7 == BU_value_at(g6, <<"auditFindings", "testing", "results", "pass">>,
                          TRUE, 25, 75000, 98000)
    IN  findings_loop(g7)

generate(g) ==
    vary_audit_findings(
        vary_operational_metrics(
            vary_risk_metrics(
                vary_compliance_metrics(
                    vary_executive_scorecard(
                        update_metadata(g))))))

----------------------------------------------------------------------------
(* The enterprise generator *)

\* if <path present>: d[leaf] = vary_value(d[leaf], trend_offset, ...)
value_at(g, path, improvement_trend, volatility, min_val, max_val) ==
    IF g.raised THEN g
    ELSE
        LET old == Lookup(g.data, path)
            new == vary_value(old, g.trend_offset, improvement_trend, volatility,
                              min_val, max_val, DrawAt(g.pos))
        IN  IF old = Raised THEN Raise(g)
            ELSE IF old = Absent THEN g
            ELSE IF new = Raised THEN Raise(g)
            ELSE [g EXCEPT !.data = SetPath(g.data, path, new),
                           !.pos = IF DrawsValue(old) THEN NextPos(g.pos) ELSE g.pos]

count_at(g, path, improvement_trend, volatility) ==
    IF g.raised THEN g
    ELSE
        LET old == Lookup(g.data, path)
            new == vary_count(old, g.trend_offset, improvement_trend, volatility,
                              DrawAt(g.pos))
        IN  IF old = Raised THEN Raise(g)
            ELSE IF old = Absent THEN g
            ELSE IF new = Raised THEN Raise(g)
            ELSE [g EXCEPT !.data = SetPath(g.data, path, new),
                           !.pos = IF DrawsCount(old) THEN NextPos(g.pos) ELSE g.pos]

\* the body of generate_quarterly_enterprise_data after the deep copy;
\* g holds the locals data, quarter and trend_offset
generate_quarterly_enterprise_data(g) ==
    LET d1 == SetPath(g.data, <<"reportingPeriod">>, Str(Upper(g.quarter)))
        d2 == SetPath(d1, <<"generatedDate">>, Str(quarter_dates[g.quarter]))
        g0 == [g EXCEPT !.data = d2]
        sc == <<"executiveScorecard">>
        g1 == value_at(g0, sc \o <<"enterpriseRiskScore">>, TRUE, 20, 60000, 95000)
        g2 == value_at(g1, sc \o <<"complianceRate">>, TRUE, 15, 80000, 99000)
    IN  count_at(g2, sc \o <<"activeFindings">>, FALSE, 150)

----------------------------------------------------------------------------
(* Memory.  copy.deepcopy and the JSON round trip make a new document     *)
(* object; the generators change the object their reference names.        *)

NewRef(h) == CHOOSE r \in 1..(Cardinality(DOMAIN h) + 1) : r \notin DOMAIN h

\* variant of deepcopy: self.data = baseline_data
deepcopy_alias(h, ref) == [heap |-> h, ref |-> ref]

\* copy.deepcopy(baseline_data): [heap, ref] with the copy at ref
deepcopy(h, ref) ==
    LET r == NewRef(h)
    IN  [heap |-> [x \in DOMAIN h \cup {r} |-> IF x = r THEN h[ref] ELSE h[x]], ref |-> r]

\* json.loads(json.dumps(baseline_data)): every value of the document model
\* (mapping with string keys, list, string, number, null) survives the round trip
json_round_trip(h, ref) ==
    LET r == NewRef(h)
    IN  [heap |-> [x \in DOMAIN h \cup {r} |-> IF x = r THEN h[ref] ELSE h[x]], ref |-> r]

\* the objects still referenced: the baseline and those in `keep`
Live(h, keep) == [x \in (DOMAIN h) \cap ({baseline_data} \cup keep) |-> h[x]]

----------------------------------------------------------------------------
(* Baseline documents *)

FullScorecard ==
    Dict("overallScore" :> Dict("value" :> Whole(85) @@ "trend" :> Str("up"))
      @@ "riskMetrics" :> Dict("amlCompliance" :> Whole(92) @@ "fraudRisk" :> Whole(88)
                            @@ "operationalRisk" :> Whole(99) @@ "cyberSecurity" :> Whole(90))
      @@ "alerts" :> Dict("critical" :> Whole(2) @@ "high" :> Whole(5)
                       @@ "medium" :> Whole(0) @@ "low" :> Whole(20)))

FullCompliance ==
    Dict("training" :> Dict("completion" :> Dict("overall" :> Whole(94)))
      @@ "regulatory" :> Dict("sarFiling" :> Dict("timeliness" :> Whole(98)
                                               @@ "quality" :> Whole(95)
                                               @@ "volume" :> Whole(120)))
      @@ "policy" :> Dict("distribution" :> Dict("acknowledgment" :> Whole(97))))

FullRisk ==
    Dict("amlMonitoring" :>
            Dict("alertVolume" :> Dict("total" :> Whole(CountMax))
              @@ "effectiveness" :> Dict("modelAccuracy" :> Whole(90)
                                      @@ "falsePositiveRate" :> Whole(12)
                                      @@ "reviewEfficiency" :> Whole(85)))
      @@ "fraudMetrics" :> Dict("losses" :> Dict("rate" :> Num(20000)))
      @@ "sanctionsScreening" :> Dict("coverage" :> Dict("transactions" :> Whole(99))))

FullOperational ==
    Dict("kycCdd" :> Dict("completion" :> Dict("new" :> Whole(96))
                       @@ "periodicReview" :> Dict("onTime" :> Whole(91)))
      @@ "amlMonitoring" :>
            Dict("effectiveness" :> Dict("modelAccuracy" :> Whole(89)
                                      @@ "falsePositiveRate" :> Whole(15)
                                      @@ "reviewEfficiency" :> Whole(80))))

Finding(id, status) == Dict("id" :> Str(id) @@ "status" :> Str(status) @@ "severity" :> Str("high"))

FullFindings ==
    Dict("summary" :> Dict("total" :> Whole(12)
                        @@ "bySeverity" :> Dict("critical" :> Whole(1) @@ "high" :> Whole(3)
                                             @@ "medium" :> Whole(5) @@ "low" :> Whole(3)))
      @@ "testing" :> Dict("results" :> Dict("pass" :> Whole(92)))
      @@ "findings" :> List(<<Finding("F-1", "Open"), Finding("F-2", "Closed"),
                              Finding("F-3", "In Progress"),
                              Dict("id" :> Str("F-4"))>>))

FullBusinessUnit ==
    Dict("name" :> Str("Consumer Banking")
      @@ "quarter" :> Str("Q3-2024")
      @@ "date" :> Str("2024-09-30")
      @@ "executiveScorecard" :> FullScorecard
      @@ "complianceMetrics" :> FullCompliance
      @@ "riskMetrics" :> FullRisk
      @@ "operationalMetrics" :> FullOperational
      @@ "auditFindings" :> FullFindings)

FullEnterprise ==
    Dict("reportingPeriod" :> Str("Q3-2024")
      @@ "generatedDate" :> Str("2024-09-30")
      @@ "businessUnits" :> List(<<Str("consumer-banking")>>)
      @@ "executiveScorecard" :> Dict("enterpriseRiskScore" :> Whole(94)
                                   @@ "complianceRate" :> Whole(98)
                                   @@ "activeFindings" :> Whole(37)
                                   @@ "trend" :> Str("improving")))

\* the document of the end-to-end scenario
ScenarioEnterprise ==
    Dict("executiveScorecard" :> Dict("enterpriseRiskScore" :> Whole(75)
                                   @@ "complianceRate" :> Whole(90)
                                   @@ "activeFindings" :> Whole(50)))

\* the paths the walkers name: fields, sections and path segments
RECURSIVE PathsOf(_)
PathsOf(node) ==
    IF node.t # "dict" THEN {<<>>}
    ELSE {<<>>} \cup UNION {{<<k>> \o p : p \in PathsOf(node.d[k])} : k \in DOMAIN node.d}

\* the document without the key at `path`
RECURSIVE Remove(_, _)
Remove(node, path) ==
    IF Len(path) = 1
    THEN Dict([k \in DOMAIN node.d \ {Head(path)} |-> node.d[k]])
    ELSE Dict([k \in DOMAIN node.d |->
                IF k = Head(path) THEN Remove(node.d[k], Tail(path)) ELSE node.d[k]])

\* the sections, path segments and fields left out or null in a sparse baseline
SparsePaths ==
    { <<"quarter">>, <<"date">>,
      <<"executiveScorecard">>, <<"complianceMetrics">>, <<"riskMetrics">>,
      <<"operationalMetrics">>, <<"auditFindings">>,
      <<"executiveScorecard", "overallScore">>,
      <<"executiveScorecard", "overallScore", "value">>,
      <<"executiveScorecard", "alerts", "high">>,
      <<"complianceMetrics", "regulatory", "sarFiling">>,
      <<"riskMetrics", "amlMonitoring", "effectiveness">>,
      <<"operationalMetrics", "kycCdd", "completion", "new">>,
      <<"auditFindings", "summary">>,
      <<"auditFindings", "summary", "total">>,
      <<"auditFindings", "summary", "bySeverity">>,
      <<"auditFindings", "summary", "bySeverity", "critical">>,
      <<"auditFindings", "testing", "results", "pass">>,
      <<"auditFindings", "findings">>,
      <<"reportingPeriod">>, <<"generatedDate">>,
      <<"executiveScorecard", "enterpriseRiskScore">>,
      <<"executiveScorecard", "activeFindings">> }

Sparse(doc) ==
    {Remove(doc, p) : p \in PathsOf(doc) \cap SparsePaths}
    \cup {SetPath(doc, p, None) : p \in PathsOf(doc) \cap SparsePaths}

SeverityVariants ==
    LET by == <<"auditFindings", "summary", "bySeverity">>
    IN  { SetPath(FullBusinessUnit, by \o <<"info">>, Whole(4)),
          SetPath(FullBusinessUnit, by, EmptyDict),
          SetPath(FullBusinessUnit, by, Dict("info" :> Whole(4))),
          SetPath(FullBusinessUnit, <<"auditFindings", "summary", "total">>, Whole(40)),
          Remove(Remove(FullBusinessUnit, by), <<"auditFindings", "summary", "total">>) }

BaselineDocs ==
    {FullBusinessUnit, FullEnterprise, ScenarioEnterprise, EmptyDict}
    \cup Sparse(FullBusinessUnit) \cup Sparse(FullEnterprise) \cup SeverityVariants

----------------------------------------------------------------------------
(* Spec: one loaded baseline document, periods generated from it *)

NoGenerator == [quarter |-> "none"]
NoResult == [gen |-> "none"]
NoCall == [fn |-> "none"]

Quarters == DOMAIN QUARTER_TRENDS

\* the variables of SpecMain, where no script runs
NoMain ==
    /\ program = "none"
    /\ dir_exists = FALSE
    /\ files = <<>>
    /\ pc = "none"
    /\ baseline_files = <<>>
    /\ qi = 0
    /\ fi = 0
    /\ console = <<>>
    /\ run = 0
    /\ first_files = <<>>

mainvars == <<program, dir_exists, files, pc, baseline_files, qi, fi, console, run,
              first_files>>

Init ==
    /\ baseline_file \in BaselineDocs
    /\ heap = <<baseline_file>>
    /\ baseline_data = 1
    /\ stream \in [1..StreamLen -> 0..RandDen]
    /\ pos = 0
    /\ self = NoGenerator
    /\ result = NoResult
    /\ call = NoCall
    /\ NoMain

\* QuarterlyDataGenerator.__init__(baseline_data, quarter, business_unit_name)
NewGenerator(quarter) ==
    /\ self = NoGenerator
    /\ LET c == deepcopy(Live(heap, {}), baseline_data)
       IN  /\ heap' = c.heap
           /\ self' = [data |-> c.ref, quarter |-> quarter,
                       trend_offset |-> QUARTER_TRENDS[quarter]]
    /\ result' = NoResult
    /\ UNCHANGED <<stream, pos, call, baseline_file, baseline_data, mainvars>>

\* QuarterlyDataGenerator.generate()
Generate ==
    /\ self # NoGenerator
    /\ LET g == generate([data |-> heap[self.data], quarter |-> self.quarter,
                          trend_offset |-> self.trend_offset,
                          pos |-> pos, raised |-> FALSE])
       IN  /\ heap' = [heap EXCEPT ![self.data] = g.data]
           /\ pos' = g.pos
           /\ result' = [gen |-> "bu", quarter |-> self.quarter,
                         raised |-> g.raised, data |-> self.data, from |-> pos]
    /\ self' = NoGenerator
    /\ UNCHANGED <<stream, call, baseline_file, baseline_data, mainvars>>

\* generate_quarterly_enterprise_data(baseline_data, quarter)
GenerateEnterprise(quarter) ==
    /\ self = NoGenerator
    /\ LET c == json_round_trip(Live(heap, {}), baseline_data)
           g == generate_quarterly_enterprise_data(
                    [data |-> c.heap[c.ref], quarter |-> quarter,
                     trend_offset |-> QUARTER_TRENDS[quarter],
                     pos |-> pos, raised |-> FALSE])
       IN  /\ heap' = [c.heap EXCEPT ![c.ref] = g.data]
           /\ pos' = g.pos
           /\ result' = [gen |-> "ent", quarter |-> quarter,
                         raised |-> g.raised, data |-> c.ref, from |-> pos]
    /\ UNCHANGED <<stream, call, baseline_file, baseline_data, self, mainvars>>

Next ==
    \/ \E quarter \in Quarters : NewGenerator(quarter)
    \/ Generate
    \/ \E quarter \in Quarters : GenerateEnterprise(quarter)

vars == <<stream, pos, call, heap, baseline_file, baseline_data, self, result,
          program, dir_exists, files, pc, baseline_files, qi, fi, console, run,
          first_files>>

Spec == Init /\ [][Next]_vars

----------------------------------------------------------------------------
(* SpecFn: the leaf functions applied to arguments from bounded sets *)

FnValues == {None, Num(0), Whole(1), Whole(2), Whole(50), Whole(75), Whole(90),
             Whole(100), Whole(CountMax), Whole(-5), Num(500), Num(2500)}
FnOffsets == {QUARTER_TRENDS[q] : q \in DOMAIN QUARTER_TRENDS}
FnVolatilities == {15, 20, 150, 200}
FnLimits == {0, 60000, 95000, 100000, CountMax * 1000}

InitFn ==
    /\ stream \in [1..StreamLen -> 0..RandDen]
    /\ pos = 0
    /\ call = NoCall
    /\ baseline_file = None
    /\ heap = <<>>
    /\ baseline_data = 0
    /\ self = NoGenerator
    /\ result = NoResult
    /\ NoMain

CallVaryValue ==
    /\ call = NoCall
    /\ \E value \in FnValues, off \in FnOffsets, imp \in BOOLEAN,
          vol \in FnVolatilities, lo \in FnLimits, hi \in FnLimits,
          bu \in BOOLEAN :
          call' = [fn |-> "vary_value", value |-> value, offset |-> off,
                   improves |-> imp, volatility |-> vol, min_val |-> lo, max_val |-> hi,
                   u |-> DrawAt(pos),
                   result |-> IF bu
                              THEN BU_vary_value(value, off, imp, vol, lo, hi, DrawAt(pos))
                              ELSE vary_value(value, off, imp, vol, lo, hi, DrawAt(pos))]
    /\ pos' = NextPos(pos)
    /\ UNCHANGED <<stream, heap, baseline_file, baseline_data, self, result, mainvars>>

CallVaryCount ==
    /\ call = NoCall
    /\ \E count \in FnValues, off \in FnOffsets, imp \in BOOLEAN,
          vol \in FnVolatilities, bu \in BOOLEAN :
          call' = [fn |-> "vary_count", value |-> count, offset |-> off,
                   improves |-> imp, volatility |-> vol,
                   u |-> DrawAt(pos),
                   result |-> IF bu
                              THEN BU_vary_count(count, off, imp, vol, DrawAt(pos))
                              ELSE vary_count(count, off, imp, vol, DrawAt(pos))]
    /\ pos' = NextPos(pos)
    /\ UNCHANGED <<stream, heap, baseline_file, baseline_data, self, result, mainvars>>

NextFn == CallVaryValue \/ CallVaryCount

SpecFn == InitFn /\ [][NextFn]_vars

----------------------------------------------------------------------------
(* SpecMain: the two scripts, run from random.seed(42) to the end of main(), *)
(* and run a second time over the directory the first run left.             *)
(* A file name <unit>-<quarter>.json is the record [unit, quarter].          *)

BASE_QUARTER == "q3-2024"

FileName(unit, quarter) == [unit |-> unit, quarter |-> quarter]

Units == {"consumer-banking", "wealth-management"}
EnterpriseBaseline == FileName("enterprise-dashboard", BASE_QUARTER)

SmallBusinessUnit ==
    Dict("name" :> Str("Wealth Management")
      @@ "auditFindings" :> Dict("summary" :> Dict("total" :> Whole(12))))

BusinessUnitFiles ==
    {FullBusinessUnit, SmallBusinessUnit,
     SetPath(SmallBusinessUnit, <<"auditFindings">>, None)}
EnterpriseFiles ==
    {FullEnterprise, ScenarioEnterprise,
     SetPath(FullEnterprise, <<"executiveScorecard">>, None)}

\* the directories the business-unit script may find
BusinessUnitDirs ==
    UNION {[{FileName(u, BASE_QUARTER) : u \in us} -> BusinessUnitFiles] : us \in SUBSET Units}
EnterpriseDirs ==
    {<<>>} \cup {(EnterpriseBaseline :> d) : d \in EnterpriseFiles}

\* the orders in which a directory listing may return the files S
Orders(S) ==
    {o \in [1..Cardinality(S) -> S] : \A f \in S : \E i \in 1..Cardinality(S) : o[i] = f}

WriteFile(fs, name, doc) ==
    [f \in DOMAIN fs \cup {name} |-> IF f = name THEN doc ELSE fs[f]]

InitMain ==
    /\ stream \in [1..StreamLen -> 0..RandDen]
    /\ pos = 0
    /\ call = NoCall
    /\ heap = <<>>
    /\ baseline_file = None
    /\ baseline_data = 0
    /\ self = NoGenerator
    /\ result = NoResult
    /\ program \in {"bu", "ent"}
    /\ dir_exists \in BOOLEAN
    /\ files \in IF ~dir_exists THEN {<<>>}
                 ELSE IF program = "bu" THEN BusinessUnitDirs ELSE EnterpriseDirs
    /\ pc = "start"
    /\ baseline_files = <<>>
    /\ qi = 0
    /\ fi = 0
    /\ console = <<>>
    /\ run = 1
    /\ first_files = <<>>

genvars == <<call, baseline_file, self, result, program>>

\* generate_quarterly_data.py: random.seed(42); main() up to the loop,
\* with load_baseline_data()
BU_main_start ==
    /\ program = "bu" /\ pc = "start"
    /\ pos' = 0
    /\ dir_exists' = TRUE
    /\ LET found == {f \in DOMAIN files : f.quarter = BASE_QUARTER}
       IN  IF found = {}
           THEN /\ pc' = "crashed"
                /\ console' = Append(console, "Traceback: FileNotFoundError")
                /\ UNCHANGED <<baseline_files, qi, fi>>
           ELSE /\ baseline_files' \in Orders(found)
                /\ pc' = "loop"
                /\ console' = Append(console, "Found baseline files")
                /\ qi' = 1
                /\ fi' = 1
    /\ UNCHANGED <<stream, heap, baseline_data, files, run, first_files, genvars>>

\* one pass of the loops of main(): generate_quarterly_data(baseline_file, quarter)
BU_generate_quarterly_data ==
    /\ program = "bu" /\ pc = "loop" /\ qi <= Len(TARGET_QUARTERS)
    /\ LET quarter == TARGET_QUARTERS[qi]
           from == baseline_files[fi]
           c == deepcopy(<<files[from]>>, 1)
           g == generate([data |-> c.heap[c.ref], quarter |-> quarter,
                          trend_offset |-> QUARTER_TRENDS[quarter],
                          pos |-> pos, raised |-> FALSE])
       IN  /\ pos' = g.pos
           /\ IF g.raised
              THEN /\ pc' = "crashed"
                   /\ console' = Append(console, "Traceback")
                   /\ UNCHANGED <<files, qi, fi>>
              ELSE /\ files' = WriteFile(files, FileName(from.unit, quarter), g.data)
                   /\ console' = Append(console, "Created")
                   /\ pc' = "loop"
                   /\ fi' = IF fi < Len(baseline_files) THEN fi + 1 ELSE 1
                   /\ qi' = IF fi < Len(baseline_files) THEN qi ELSE qi + 1
    /\ UNCHANGED <<stream, heap, baseline_data, dir_exists, baseline_files, run,
                   first_files, genvars>>

\* the summary lines of main()
BU_main_end ==
    /\ program = "bu" /\ pc = "loop" /\ qi > Len(TARGET_QUARTERS)
    /\ pc' = "done"
    /\ console' = Append(console, "Successfully generated")
    /\ UNCHANGED <<stream, pos, heap, baseline_data, dir_exists, files, baseline_files,
                   qi, fi, run, first_files, genvars>>

\* generate_enterprise_quarterly.py: random.seed(42); main() up to the loop
Ent_main_start ==
    /\ program = "ent" /\ pc = "start"
    /\ pos' = 0
    /\ IF EnterpriseBaseline \notin DOMAIN files
       THEN /\ console' = Append(console, "Error: Baseline file not found")
            /\ pc' = "returned"
            /\ UNCHANGED <<heap, baseline_data, qi>>
       ELSE /\ heap' = <<files[EnterpriseBaseline]>>
            /\ baseline_data' = 1
            /\ console' = Append(console, "Loaded baseline")
            /\ pc' = "loop"
            /\ qi' = 1
    /\ UNCHANGED <<stream, dir_exists, files, baseline_files, fi, run, first_files,
                   genvars>>

\* one pass of the loop of main()
Ent_main_iteration ==
    /\ program = "ent" /\ pc = "loop" /\ qi <= Len(TARGET_QUARTERS)
    /\ LET quarter == TARGET_QUARTERS[qi]
           c == json_round_trip(Live(heap, {}), baseline_data)
           g == generate_quarterly_enterprise_data(
                    [data |-> c.heap[c.ref], quarter |-> quarter,
                     trend_offset |-> QUARTER_TRENDS[quarter],
                     pos |-> pos, raised |-> FALSE])
       IN  /\ pos' = g.pos
           /\ IF g.raised
              THEN /\ pc' = "crashed"
                   /\ console' = Append(console, "Traceback")
                   /\ UNCHANGED <<files, qi>>
              ELSE /\ files' = WriteFile(files, FileName("enterprise-dashboard", quarter),
                                         g.data)
                   /\ console' = Append(console, "Created")
                   /\ pc' = "loop"
                   /\ qi' = qi + 1
    /\ UNCHANGED <<stream, heap, baseline_data, dir_exists, baseline_files, fi, run,
                   first_files, genvars>>

\* the summary lines of main()
Ent_main_end ==
    /\ program = "ent" /\ pc = "loop" /\ qi > Len(TARGET_QUARTERS)
    /\ pc' = "done"
    /\ console' = Append(console, "Successfully generated")
    /\ UNCHANGED <<stream, pos, heap, baseline_data, dir_exists, files, baseline_files,
                   qi, fi, run, first_files, genvars>>

\* the script is started again, over the directory as it now is
RunAgain ==
    /\ run = 1 /\ pc = "done"
    /\ run' = 2
    /\ first_files' = files
    /\ pc' = "start"
    /\ console' = <<>>
    /\ heap' = <<>>
    /\ baseline_data' = 0
    /\ baseline_files' = <<>>
    /\ qi' = 0
    /\ fi' = 0
    /\ UNCHANGED <<stream, pos, dir_exists, files, genvars>>

NextMain ==
    \/ BU_main_start
    \/ BU_generate_quarterly_data
    \/ BU_main_end
    \/ Ent_main_start
    \/ Ent_main_iteration
    \/ Ent_main_end
    \/ RunAgain

SpecMain == InitMain /\ [][NextMain]_vars

----------------------------------------------------------------------------
(* Properties of the leaf functions (SpecFn) *)

IsWhole(x) == x.t = "num" /\ x.v % 1000 = 0

\* C1: for a numeric value and bounds min_val <= max_val, whatever the offset,
\* the trend direction and the draw, vary_value of either generator returns a
\* number in [min_val, max_val].
C1_WithinBounds ==
    (call.fn = "vary_value" /\ call.value.t = "num" /\ call.min_val <= call.max_val)
        => /\ call.result.t = "num"
           /\ call.min_val <= call.result.v
           /\ call.result.v <= call.max_val

\* the clamp acted: 100 raised by trend and noise above the upper bound 95
C1_Witness ==
    /\ call.fn = "vary_value"
    /\ call.value = Whole(100)
    /\ call.min_val = 60000 /\ call.max_val = 95000
    /\ call.offset = 1 /\ call.improves /\ call.u = RandDen
    /\ call.result = Num(95000)

\* C9: vary_count of either generator returns a whole number for every numeric
\* count, returns 0 for the count 0 and the absent count unchanged; any other
\* result is the value clamped into [0, 999999], rounded to a nearest whole number.
C9_CountIsWhole ==
    call.fn = "vary_count" =>
        /\ call.value = None => call.result = None
        /\ call.value = Num(0) => call.result = Num(0)
        /\ call.value.t = "num" =>
            /\ IsWhole(call.result)
            /\ 0 <= call.result.v /\ call.result.v <= CountMax * 1000
            /\ call.value # Num(0) =>
                 LET clamped == Max2(0, Min2(CountMax * 1000,
                                  MulMilli(call.value.v,
                                      1000
                                      + call.offset * TrendPerQuarter
                                          * (IF call.improves THEN 1 ELSE -1)
                                      + uniform(-call.volatility, call.volatility, call.u))))
                 IN  /\ call.result.v - clamped <= 500
                     /\ clamped - call.result.v <= 500

\* the rounding acted: 50 * (1 + 0.045 - 0.15) = 44.75 became 45
C9_Witness ==
    /\ call.fn = "vary_count"
    /\ call.value = Whole(50)
    /\ call.offset = -3 /\ ~call.improves /\ call.volatility = 150 /\ call.u = 0
    /\ call.result = Whole(45)

----------------------------------------------------------------------------
(* Properties of a generated period (Spec) *)

\* the last generate call returned a document
Completed == result.gen # "none" /\ ~result.raised
CompletedBy(gen) == result.gen = gen /\ ~result.raised

Out == heap[result.data]
Offset == QUARTER_TRENDS[result.quarter]

SummaryPath == <<"auditFindings", "summary">>
OutSummary == Lookup(Out, SummaryPath)
OutBySeverity == Lookup(Out, SummaryPath \o <<"bySeverity">>)
OutTotal == Lookup(Out, SummaryPath \o <<"total">>)
BaseTotal == Lookup(baseline_file, SummaryPath \o <<"total">>)

\* the sum of the values of summary.bySeverity; 0 when it is absent or empty
SeveritySum(by) ==
    IF by.t = "dict" THEN SumKeys(by.d, DOMAIN by.d) ELSE 0

\* C2 as stated: the total, when present, is the sum of the bySeverity values,
\* also when bySeverity is absent or empty.
C2_Original ==
    (CompletedBy("bu") /\ OutTotal.t = "num")
        => OutTotal.v = SeveritySum(OutBySeverity)

\* C2 amended: when bySeverity is a non-empty mapping the total is present and is
\* the sum of its values, whatever its keys; when bySeverity is absent or empty
\* the total is not recomputed: it holds the value vary_count made of the
\* baseline's total (and stays absent when the baseline has none).
C2_TotalIsSum ==
    CompletedBy("bu") =>
        /\ (OutBySeverity.t = "dict" /\ DOMAIN OutBySeverity.d # {})
              => /\ OutTotal.t = "num"
                 /\ OutTotal.v = SumKeys(OutBySeverity.d, DOMAIN OutBySeverity.d)
        /\ (OutSummary.t = "dict"
            /\ (OutBySeverity = Absent \/ OutBySeverity = EmptyDict))
              => IF BaseTotal = Absent THEN OutTotal = Absent
                 ELSE \E u \in 0..RandDen :
                        OutTotal = BU_vary_count(BaseTotal, Offset, FALSE, 150, u)

\* a bySeverity with a key besides critical/high/medium/low, its total recomputed
C2_Witness ==
    /\ CompletedBy("bu")
    /\ OutBySeverity.t = "dict" /\ "info" \in DOMAIN OutBySeverity.d
    /\ "critical" \in DOMAIN OutBySeverity.d
    /\ OutTotal.t = "num" /\ OutTotal # BaseTotal
    /\ OutTotal.v = SumKeys(OutBySeverity.d, DOMAIN OutBySeverity.d)

\* the bounds configured for the fields of the business-unit walker that
\* override the defaults [0, 100] (values) and [0, 999999] (counts)
ConfiguredBounds ==
    { [path |-> <<"executiveScorecard", "overallScore", "value">>, lo |-> 60000, hi |-> 95000],
      [path |-> <<"executiveScorecard", "riskMetrics", "operationalRisk">>, lo |-> 0, hi |-> 100000],
      [path |-> <<"executiveScorecard", "alerts", "low">>, lo |-> 0, hi |-> CountMax * 1000],
      [path |-> <<"complianceMetrics", "training", "completion", "overall">>, lo |-> 80000, hi |-> 99000],
      [path |-> <<"riskMetrics", "amlMonitoring", "alertVolume", "total">>, lo |-> 0, hi |-> CountMax * 1000],
      [path |-> <<"riskMetrics", "fraudMetrics", "losses", "rate">>, lo |-> 1000, hi |-> 100000],
      [path |-> <<"riskMetrics", "sanctionsScreening", "coverage", "transactions">>, lo |-> 95000, hi |-> 100000],
      [path |-> <<"auditFindings", "testing", "results", "pass">>, lo |-> 75000, hi |-> 98000] }

\* in a generated document every such field that holds a number is within its
\* bounds (the consequence of C1 for the documents)
FieldsWithinBounds ==
    CompletedBy("bu") =>
        \A c \in ConfiguredBounds :
            LET x == Lookup(Out, c.path)
            IN  x.t = "num" => (c.lo <= x.v /\ x.v <= c.hi)

\* the fields of the end-to-end scenario in the generated document
OutRiskScore == Lookup(Out, <<"executiveScorecard", "enterpriseRiskScore">>)
OutComplianceRate == Lookup(Out, <<"executiveScorecard", "complianceRate">>)
OutActiveFindings == Lookup(Out, <<"executiveScorecard", "activeFindings">>)

Scenario ==
    /\ CompletedBy("ent")
    /\ baseline_file = ScenarioEnterprise
    /\ result.quarter = "q4-2023"

\* the noise of the third call of the generation, that of activeFindings
ActiveFindingsNoise == uniform(-150, 150, DrawAt(result.from + 2))

\* C4 as stated: in the scenario, for every draw, both scores are below their
\* baseline and within bounds, and activeFindings is a whole number above 50.
C4_Original ==
    Scenario =>
        /\ OutRiskScore.v < 75000
        /\ 60000 <= OutRiskScore.v /\ OutRiskScore.v <= 95000
        /\ OutComplianceRate.v < 90000
        /\ 80000 <= OutComplianceRate.v /\ OutComplianceRate.v <= 99000
        /\ OutActiveFindings.v > 50000
        /\ IsWhole(OutActiveFindings)

\* C4 amended: both scores as stated; activeFindings is a whole number between
\* 45 and 60, above 50 for a noise draw of -0.03 or more and not above 50 for a
\* noise draw of -0.04 or less (the noise of +-0.15 outweighs the trend of 0.045).
C4_Scenario ==
    Scenario =>
        /\ OutRiskScore.v < 75000
        /\ 60000 <= OutRiskScore.v /\ OutRiskScore.v <= 95000
        /\ OutComplianceRate.v < 90000
        /\ 80000 <= OutComplianceRate.v /\ OutComplianceRate.v <= 99000
        /\ IsWhole(OutActiveFindings)
        /\ 45000 <= OutActiveFindings.v /\ OutActiveFindings.v <= 60000
        /\ ActiveFindingsNoise >= -30 => OutActiveFindings.v > 50000
        /\ ActiveFindingsNoise <= -40 => OutActiveFindings.v <= 50000

\* the scenario with the lowest draw for activeFindings: 44.75, rounded to 45
C4_Witness ==
    /\ Scenario
    /\ ActiveFindingsNoise = -150
    /\ OutActiveFindings = Whole(45)
    /\ OutRiskScore.v < 75000

\* a and b have the same keys at every nesting level (and lists the same
\* length), but for keys of b at the paths in `added`
RECURSIVE SameKeys(_, _, _, _)
SameKeys(a, b, path, added) ==
    IF a.t = "dict" /\ b.t = "dict"
    THEN /\ DOMAIN a.d \subseteq DOMAIN b.d
         /\ \A k \in DOMAIN b.d \ DOMAIN a.d : (path \o <<k>>) \in added
         /\ \A k \in DOMAIN a.d : SameKeys(a.d[k], b.d[k], path \o <<k>>, added)
    ELSE IF a.t = "list" /\ b.t = "list"
    THEN /\ Len(a.l) = Len(b.l)
         /\ \A i \in 1..Len(a.l) : SameKeys(a.l[i], b.l[i], path, added)
    ELSE a.t # "dict" /\ b.t # "dict" /\ a.t # "list" /\ b.t # "list"

TotalPath == SummaryPath \o <<"total">>

MetadataPaths(gen) ==
    IF gen = "bu" THEN {<<"quarter">>, <<"date">>}
    ELSE {<<"reportingPeriod">>, <<"generatedDate">>}

\* C5 as stated: the generated document has the keys of the baseline at every
\* level; only the recomputed total may be added.
C5_Original ==
    Completed => SameKeys(baseline_file, Out, <<>>, {TotalPath})

\* C5 amended: the generated document has the keys of the baseline at every
\* level, but for the recomputed total and the two metadata fields of the
\* generator, which are set unconditionally and so are added to a baseline that
\* lacks them; the metadata fields are always present in the output.
C5_SameKeys ==
    Completed =>
        /\ SameKeys(baseline_file, Out, <<>>, {TotalPath} \cup MetadataPaths(result.gen))
        /\ \A p \in MetadataPaths(result.gen) : Lookup(Out, p).t = "str"

\* a baseline without the period label: the output has it, and nothing else new
C5_Witness ==
    /\ CompletedBy("bu")
    /\ Lookup(baseline_file, <<"quarter">>) = Absent
    /\ Lookup(baseline_file, <<"auditFindings", "summary", "bySeverity">>).t = "dict"
    /\ Lookup(Out, <<"quarter">>) = Str(Upper(result.quarter))
    /\ Out # baseline_file

\* C6: the loaded baseline document is what the baseline file holds, at every
\* point of every sequence of generations (also one that raised).
C6_BaselineUnchanged ==
    /\ baseline_data \in DOMAIN heap
    /\ heap[baseline_data] = baseline_file

\* a second generation (the random source has moved on) that changed its copy
C6_Witness ==
    /\ Completed
    /\ result.from # 0
    /\ Out # baseline_file
    /\ result.data # baseline_data

BaseFindings == Lookup(baseline_file, <<"auditFindings", "findings">>)
OutFindings == Lookup(Out, <<"auditFindings", "findings">>)

\* record b is record a with its status set to `status`
StatusSet(a, b, status) == a.t = "dict" /\ b = SetPath(a, <<"status">>, Str(status))

C10_Original == result.gen # "none" => ~result.raised

----------------------------------------------------------------------------
(* Properties of the scripts (SpecMain) *)

Ended == pc \in {"done", "returned", "crashed"}
BaselineMissing == \A f \in DOMAIN files : f.quarter # BASE_QUARTER
NoOutputFiles == \A f \in DOMAIN files : f.quarter = BASE_QUARTER
ErrorReported ==
    \E i \in 1..Len(console) :
        console[i] \in {"Error: Baseline file not found", "Traceback: FileNotFoundError"}

\* C3 as stated: with the baseline input missing, either script ends with a
\* reported error and no output file, and not through an uncaught exception.
C3_Original ==
    (run = 1 /\ Ended /\ BaselineMissing)
        => /\ ErrorReported
           /\ NoOutputFiles
           /\ pc # "crashed"

\* C8 as stated: a second run of a script over the same baseline documents, from
\* the same seed, leaves the same output documents as the first.
C8_Original ==
    (run = 2 /\ pc = "done") => files = first_files

----------------------------------------------------------------------------
(* Frame of a generation (Spec) *)

\* the paths a generator may write; "*" stands for any element of a list
KnownPaths(gen) ==
    IF gen = "ent"
    THEN { <<"reportingPeriod">>, <<"generatedDate">>,
           <<"executiveScorecard", "enterpriseRiskScore">>,
           <<"executiveScorecard", "complianceRate">>,
           <<"executiveScorecard", "activeFindings">> }
    ELSE { <<"quarter">>, <<"date">>,
           <<"executiveScorecard", "overallScore", "value">>,
           <<"executiveScorecard", "riskMetrics", "amlCompliance">>,
           <<"executiveScorecard", "riskMetrics", "fraudRisk">>,
           <<"executiveScorecard", "riskMetrics", "operationalRisk">>,
           <<"executiveScorecard", "riskMetrics", "cyberSecurity">>,
           <<"executiveScorecard", "alerts", "critical">>,
           <<"executiveScorecard", "alerts", "high">>,
           <<"executiveScorecard", "alerts", "medium">>,
           <<"executiveScorecard", "alerts", "low">>,
           <<"complianceMetrics", "training", "completion", "overall">>,
           <<"complianceMetrics", "regulatory", "sarFiling", "timeliness">>,
           <<"complianceMetrics", "regulatory", "sarFiling", "quality">>,
           <<"complianceMetrics", "regulatory", "sarFiling", "volume">>,
           <<"complianceMetrics", "policy", "distribution", "acknowledgment">>,
           <<"riskMetrics", "amlMonitoring", "alertVolume", "total">>,
           <<"riskMetrics", "amlMonitoring", "effectiveness", "modelAccuracy">>,
           <<"riskMetrics", "amlMonitoring", "effectiveness", "falsePositiveRate">>,
           <<"riskMetrics", "amlMonitoring", "effectiveness", "reviewEfficiency">>,
           <<"riskMetrics", "fraudMetrics", "losses", "rate">>,
           <<"riskMetrics", "sanctionsScreening", "coverage", "transactions">>,
           <<"operationalMetrics", "kycCdd", "completion", "new">>,
           <<"operationalMetrics", "kycCdd", "periodicReview", "onTime">>,
           <<"operationalMetrics", "amlMonitoring", "effectiveness", "modelAccuracy">>,
           <<"operationalMetrics", "amlMonitoring", "effectiveness", "falsePositiveRate">>,
           <<"operationalMetrics", "amlMonitoring", "effectiveness", "reviewEfficiency">>,
           <<"auditFindings", "summary", "total">>,
           <<"auditFindings", "summary", "bySeverity", "critical">>,
           <<"auditFindings", "summary", "bySeverity", "high">>,
           <<"auditFindings", "summary", "bySeverity", "medium">>,
           <<"auditFindings", "summary", "bySeverity", "low">>,
           <<"auditFindings", "testing", "results", "pass">>,
           <<"auditFindings", "findings", "*", "status">> }

\* b is a but for what lies at the paths in `known`: every other field of b is
\* a field of a with the value it has in a, and no other field of a is missing
RECURSIVE SameButAt(_, _, _, _)
SameButAt(a, b, path, known) ==
    IF path \in known THEN TRUE
    ELSE IF a.t = "dict" /\ b.t = "dict"
    THEN /\ \A k \in DOMAIN b.d \ DOMAIN a.d : (path \o <<k>>) \in known
         /\ \A k \in DOMAIN a.d \ DOMAIN b.d : (path \o <<k>>) \in known
         /\ \A k \in DOMAIN a.d \cap DOMAIN b.d :
               SameButAt(a.d[k], b.d[k], path \o <<k>>, known)
    ELSE IF a.t = "list" /\ b.t = "list"
    THEN /\ Len(a.l) = Len(b.l)
         /\ \A i \in 1..Len(a.l) : SameButAt(a.l[i], b.l[i], path \o <<"*">>, known)
    ELSE a = b

====
